---- MODULE Spec2Model ----
(***************************************************************************)
(* Model of the kanban server (src/server/src/index.js): the PostgreSQL    *)
(* tables boards, board_members, lists, tasks and board_chat_messages, the *)
(* Express handlers that create, show and move lists and tasks, manage the *)
(* members of a board and post chat messages, and the socket event         *)
(* 'board-message'.  Every handler is a sequence of                        *)
(* awaited queries; each awaited query is one step of the process (the     *)
(* connection) that runs the handler, so handlers of different processes   *)
(* interleave between queries exactly as the event loop and the pool let   *)
(* them.  moveTask and moveList run their queries between BEGIN and        *)
(* COMMIT/ROLLBACK on one client: their writes stay in the transaction's   *)
(* private row versions (txw) until COMMIT publishes them.                 *)
(***************************************************************************)
EXTENDS Integers, FiniteSets, Sequences, TLC

(* ------------------------------ bounds --------------------------------- *)
MaxBoards == 2
MaxLists == 2
MaxTasks == 2
MaxPos == 2
NumUsers == 2
NumProcs == 2
MaxMessages == 2
\* rows the users table ever gets (its SERIAL is capped here)
MaxAccounts == 4
\* distinct emails, and distinct usernames, a request can carry
MaxNames == 3

VARIABLES
  boards,         \* table boards: id -> [user_id]
  board_members,  \* table board_members: set of [board_id, user_id, role]
  lists,          \* table lists: id -> [board_id, position]
  tasks,          \* table tasks: id -> [list_id, position]
  pc,             \* per process: the await the running handler is parked at
  req,            \* per process: the handler's request parameters and locals
  txw,            \* per process: row versions written by its open transaction
  base,           \* the tables as they were when the running calls began
  serial,         \* the SERIAL sequences: the last id given, per table
  board_chat_messages,  \* table board_chat_messages: id -> [board_id, user_id]
  emitted,        \* the events io.to(room).emit has sent, in order
  users           \* table users: id -> [email, username]

vars == <<boards, board_members, lists, tasks, pc, req, txw, base,
          serial, board_chat_messages, emitted, users>>

Users == 1..NumUsers
Procs == 1..NumProcs
\* ids a request may carry; the largest one never names an existing row
BoardIds == 1..(MaxBoards + 1)
ListIds == 1..(MaxLists + 1)
TaskIds == 1..(MaxTasks + 1)
Positions == 0..MaxPos

NoRows == [id \in {} |-> 0]
NoTx == [tasks |-> NoRows, lists |-> NoRows]
NoReq ==
  [op |-> "none", taskId |-> 0, listId |-> 0, boardId |-> 0, position |-> 0,
   userId |-> 0, memberId |-> 0, role |-> "", row |-> 0, rows |-> {}, status |-> 0,
   email |-> 0, username |-> 0]
NoBase ==
  [set |-> FALSE, lists |-> NoRows, tasks |-> NoRows, boards |-> NoRows,
   board_members |-> {}, board_chat_messages |-> NoRows, emitted |-> <<>>]

Max(S) == CHOOSE x \in S : \A y \in S : y <= x

(* --------------------------- SQL statements ---------------------------- *)

\* the same SELECT without its + 1
TaskNextPosMax(T, listId) ==
  LET ps == {T[id].position : id \in {i \in DOMAIN T : T[i].list_id = listId}}
  IN  IF ps = {} THEN 0 ELSE Max(ps)

\* SELECT COALESCE(MAX(position), 0) + 1 FROM tasks WHERE list_id = $1
TaskNextPos(T, listId) ==
  LET ps == {T[id].position : id \in {i \in DOMAIN T : T[i].list_id = listId}}
  IN  (IF ps = {} THEN 0 ELSE Max(ps)) + 1

\* SELECT COALESCE(MAX(position), 0) + 1 FROM lists WHERE board_id = $1
ListNextPos(L, boardId) ==
  LET ps == {L[id].position : id \in {i \in DOMAIN L : L[i].board_id = boardId}}
  IN  (IF ps = {} THEN 0 ELSE Max(ps)) + 1

\* the id a SERIAL column gives the next inserted row: nextval of the table's
\* sequence, which never gives an id again, whatever rows are deleted
NextId(t) == serial[t] + 1

\* INSERT INTO tasks (..., list_id, position) VALUES (..., $3, $4)
InsertTask(T, id, listId, position) ==
  [i \in DOMAIN T \cup {id} |->
     IF i = id THEN [list_id |-> listId, position |-> position] ELSE T[i]]

\* INSERT INTO lists (title, board_id, position) VALUES ($1, $2, $3)
InsertList(L, id, boardId, position) ==
  [i \in DOMAIN L \cup {id} |->
     IF i = id THEN [board_id |-> boardId, position |-> position] ELSE L[i]]

\* the rows of: UPDATE tasks ... WHERE list_id = $1 AND position >= $2
ShiftTasksMatch(T, destinationListId, newPosition) ==
  {id \in DOMAIN T :
     T[id].list_id = destinationListId /\ T[id].position >= newPosition}

\* ShiftTasks with a fault: the first UPDATE of moveTask shifts nothing
ShiftTasksNone(T, destinationListId, newPosition) == T

\* ShiftTasks with a fault: the first UPDATE of moveTask lacks list_id = $1
\* and shifts the tasks of every list
ShiftTasksAnyList(T, destinationListId, newPosition) ==
  [id \in DOMAIN T |->
     IF T[id].position >= newPosition
     THEN [T[id] EXCEPT !.position = @ + 1]
     ELSE T[id]]

\* UPDATE tasks SET position = position + 1 WHERE list_id = $1 AND position >= $2
ShiftTasks(T, destinationListId, newPosition) ==
  [id \in DOMAIN T |->
     IF id \in ShiftTasksMatch(T, destinationListId, newPosition)
     THEN [T[id] EXCEPT !.position = @ + 1]
     ELSE T[id]]

\* UPDATE tasks SET list_id = $1, position = $2 WHERE id = $3
SetTask(T, destinationListId, newPosition, taskId) ==
  IF taskId \in DOMAIN T
  THEN [T EXCEPT ![taskId] = [list_id |-> destinationListId, position |-> newPosition]]
  ELSE T

\* the rows of: UPDATE lists ... WHERE board_id = $1 AND position >= $2
ShiftListsMatch(L, boardId, position) ==
  {id \in DOMAIN L : L[id].board_id = boardId /\ L[id].position >= position}

\* UPDATE lists SET position = position + 1 WHERE board_id = $1 AND position >= $2
ShiftLists(L, boardId, position) ==
  [id \in DOMAIN L |->
     IF id \in ShiftListsMatch(L, boardId, position)
     THEN [L[id] EXCEPT !.position = @ + 1]
     ELSE L[id]]

\* UPDATE lists SET position = $1 WHERE id = $2
SetList(L, position, listId) ==
  IF listId \in DOMAIN L
  THEN [L EXCEPT ![listId].position = position]
  ELSE L

\* SELECT bm.role FROM board_members bm JOIN lists l ON l.board_id = bm.board_id
\*  WHERE l.id = $1 AND bm.user_id = $2
ListMemberRows(L, M, listId, userId) ==
  {m \in M : listId \in DOMAIN L /\ m.board_id = L[listId].board_id
             /\ m.user_id = userId}

\* SELECT id FROM boards WHERE id = $1 AND user_id = $2
BoardOwnerRows(B, boardId, userId) ==
  {b \in DOMAIN B : b = boardId /\ B[b].user_id = userId}

\* SELECT role FROM board_members WHERE board_id = $1 AND user_id = $2
MemberRows(M, boardId, userId) ==
  {m \in M : m.board_id = boardId /\ m.user_id = userId}

\* ... AND role = 'owner'
OwnerRows(M, boardId, userId) ==
  {m \in MemberRows(M, boardId, userId) : m.role = "owner"}

\* OwnerAdminRows with a fault: the role is not looked at
OwnerAdminRowsAnyRole(M, boardId, userId) == MemberRows(M, boardId, userId)

\* ... AND role IN ('owner', 'admin')
OwnerAdminRows(M, boardId, userId) ==
  {m \in MemberRows(M, boardId, userId) : m.role \in {"owner", "admin"}}

\* rows[0].role of a result that holds a row (UNIQUE(board_id, user_id): one row)
RowRole(rows) == (CHOOSE m \in rows : TRUE).role

\* checkBoardPermission: const roles = {member: 0, admin: 1, owner: 2}
roles == [member |-> 0, admin |-> 1, owner |-> 2]

\* roles[r]: the number of a role the object names, undefined (no number) for
\* every other string
RoleNumber(r) == IF r \in DOMAIN roles THEN {roles[r]} ELSE {}

\* a < b of JavaScript on such values: false when a side is undefined
JsLess(a, b) == \E x \in a, y \in b : x < y

\* checkBoardPermission with a fault: every member passes, whatever the role
checkBoardPermissionAnyRole(M, boardId, userId, requiredRole) ==
  MemberRows(M, boardId, userId) # {}

\* checkBoardPermission(requiredRole): TRUE when the middleware calls next(),
\* FALSE when it answers 403
checkBoardPermission(M, boardId, userId, requiredRole) ==
  LET rows == MemberRows(M, boardId, userId)
  IN  /\ rows # {}
      /\ ~JsLess(RoleNumber(RowRole(rows)), RoleNumber(requiredRole))

\* DELETE FROM boards WHERE id = $1, and what ON DELETE CASCADE removes with it
DeleteBoardRows(B, boardId) == [b \in DOMAIN B \ {boardId} |-> B[b]]
CascadeLists(L, boardId) == [l \in {i \in DOMAIN L : L[i].board_id # boardId} |-> L[l]]
CascadeTasks(T, L, boardId) ==
  [t \in {i \in DOMAIN T : T[i].list_id \notin DOMAIN L
                             \/ L[T[i].list_id].board_id # boardId} |-> T[t]]
CascadeMembers(M, boardId) == {m \in M : m.board_id # boardId}
CascadeMessages(C, boardId) == [c \in {i \in DOMAIN C : C[i].board_id # boardId} |-> C[c]]

\* INSERT INTO board_chat_messages (board_id, user_id, message_text)
InsertMessage(C, id, boardId, userId) ==
  [i \in DOMAIN C \cup {id} |->
     IF i = id THEN [board_id |-> boardId, user_id |-> userId] ELSE C[i]]

\* the tasks of a list, the lists of a board: the sibling-sets
TasksOf(T, listId) == {id \in DOMAIN T : T[id].list_id = listId}
ListsOf(L, boardId) == {id \in DOMAIN L : L[id].board_id = boardId}

\* GET /api/boards/:boardId/lists: json_agg(... ORDER BY t.position), the index
\* at which the board shows a task of its list (0 is the top)
TaskIndex(T, id) ==
  Cardinality({j \in TasksOf(T, T[id].list_id) : T[j].position < T[id].position})

\* the tasks of a list in the order the board shows them
TaskOrder(T, listId) ==
  [k \in 1..Cardinality(TasksOf(T, listId)) |->
     CHOOSE id \in TasksOf(T, listId) : TaskIndex(T, id) = k - 1]

\* GET /api/boards/:boardId/lists: ORDER BY l.position, the index at which the
\* board shows a list (0 is the leftmost)
ListIndex(L, id) ==
  Cardinality({j \in ListsOf(L, L[id].board_id) : L[j].position < L[id].position})

\* the lists of a board in the order the board shows them
ListOrder(L, boardId) ==
  [k \in 1..Cardinality(ListsOf(L, boardId)) |->
     CHOOSE id \in ListsOf(L, boardId) : ListIndex(L, id) = k - 1]

\* what a moveTask call that runs alone commits: its two UPDATEs in order
MoveTaskCall(T, taskId, destinationListId, newPosition) ==
  SetTask(ShiftTasks(T, destinationListId, newPosition),
          destinationListId, newPosition, taskId)

\* what an authorized moveList call that runs alone commits: its two UPDATEs
MoveListCall(L, listId, position, boardId) ==
  SetList(ShiftLists(L, boardId, position), position, listId)

\* Board.js onDragEnd: tasks.splice(source.index, 1), then
\* tasks.splice(destination.index, 0, movedTask), on the displayed order
ClientSplice(order, sourceIndex, destinationIndex) ==
  LET n == Len(order)
      movedTask == order[sourceIndex + 1]
      rest == [k \in 1..(n - 1) |-> IF k <= sourceIndex THEN order[k] ELSE order[k + 1]]
  IN  [k \in 1..n |->
         IF k <= destinationIndex THEN rest[k]
         ELSE IF k = destinationIndex + 1 THEN movedTask
         ELSE rest[k - 1]]

(* --------------------------- transactions ------------------------------ *)

\* what a statement of a transaction reads: committed rows, its own writes on top
TxView(T, w) == [id \in DOMAIN T |-> IF id \in DOMAIN w THEN w[id] ELSE T[id]]

\* the row versions a transaction holds after a statement turned view V into V2
TxWrite(w, V, V2) ==
  [id \in DOMAIN w \cup {i \in DOMAIN V : V2[i] # V[i]} |-> V2[id]]

\* a row written by another open transaction is locked until that one ends
TasksLocked(p, ids) == \E q \in Procs \ {p} : DOMAIN txw[q].tasks \cap ids # {}
ListsLocked(p, ids) == \E q \in Procs \ {p} : DOMAIN txw[q].lists \cap ids # {}

(* ------------------------------ state ---------------------------------- *)

\* the accounts of the users who hold a token: user u registered with the
\* email and the username number u
Registered == [u \in Users |-> [email |-> u, username |-> u]]

Init ==
  /\ boards = NoRows
  /\ board_members = {}
  /\ lists = NoRows
  /\ tasks = NoRows
  /\ pc = [p \in Procs |-> "idle"]
  /\ req = [p \in Procs |-> NoReq]
  /\ txw = [p \in Procs |-> NoTx]
  /\ base = NoBase
  /\ serial = [boards |-> 0, lists |-> 0, tasks |-> 0, board_chat_messages |-> 0,
               users |-> NumUsers]
  /\ board_chat_messages = NoRows
  /\ emitted = <<>>
  /\ users = Registered

\* a database holding one board with MaxLists lists and no task, as
\* createBoard followed by MaxLists createList calls leave it (InitListsState
\* is reached under Spec)
InitLists ==
  /\ boards = [b \in {1} |-> [user_id |-> 1]]
  /\ board_members = {[board_id |-> 1, user_id |-> 1, role |-> "owner"]}
  /\ lists = [l \in 1..MaxLists |-> [board_id |-> 1, position |-> l]]
  /\ tasks = NoRows
  /\ pc = [p \in Procs |-> "idle"]
  /\ req = [p \in Procs |-> NoReq]
  /\ txw = [p \in Procs |-> NoTx]
  /\ base = NoBase
  /\ serial = [boards |-> 1, lists |-> MaxLists, tasks |-> 0, board_chat_messages |-> 0,
               users |-> NumUsers]
  /\ board_chat_messages = NoRows
  /\ emitted = <<>>
  /\ users = Registered

\* a database holding one board with its first list, as createBoard followed
\* by one createList call leave it
InitBoard ==
  /\ boards = [b \in {1} |-> [user_id |-> 1]]
  /\ board_members = {[board_id |-> 1, user_id |-> 1, role |-> "owner"]}
  /\ lists = [l \in {1} |-> [board_id |-> 1, position |-> 1]]
  /\ tasks = NoRows
  /\ pc = [p \in Procs |-> "idle"]
  /\ req = [p \in Procs |-> NoReq]
  /\ txw = [p \in Procs |-> NoTx]
  /\ base = NoBase
  /\ serial = [boards |-> 1, lists |-> 1, tasks |-> 0, board_chat_messages |-> 0,
               users |-> NumUsers]
  /\ board_chat_messages = NoRows
  /\ emitted = <<>>
  /\ users = Registered

InitListsState ==
  /\ boards = [b \in {1} |-> [user_id |-> 1]]
  /\ lists = [l \in 1..MaxLists |-> [board_id |-> 1, position |-> l]]
  /\ tasks = NoRows
  /\ \A p \in Procs : pc[p] = "idle" /\ txw[p] = NoTx

AllIdle == \A p \in Procs : pc[p] = "idle"
Snapshot ==
  [set |-> TRUE, lists |-> lists, tasks |-> tasks, boards |-> boards,
   board_members |-> board_members, board_chat_messages |-> board_chat_messages,
   emitted |-> emitted]
\* a call that begins while no other call runs opens a new group of calls
BaseAtStart == IF AllIdle THEN Snapshot ELSE base

InFlight(label) == Cardinality({p \in Procs : pc[p] = label})

(* ----------------- POST /api/lists/:listId/tasks ----------------------- *)

\* authenticateToken has put the caller in req.user (userId), which the
\* handler never reads; first await: the SELECT of the next position
CreateTaskRead(p, listId, userId) ==
  /\ pc[p] = "idle"
  /\ serial.tasks + InFlight("ct_insert") < MaxTasks
  /\ TaskNextPos(tasks, listId) <= MaxPos
  /\ pc' = [pc EXCEPT ![p] = "ct_insert"]
  /\ req' = [req EXCEPT ![p] =
               [NoReq EXCEPT !.op = "createTask", !.listId = listId,
                             !.userId = userId,
                             !.position = TaskNextPos(tasks, listId)]]
  /\ base' = BaseAtStart
  /\ UNCHANGED <<users, boards, board_members, lists, tasks, txw,
               serial, board_chat_messages, emitted>>

\* second await: the INSERT; a list_id naming no list violates the foreign key
CreateTaskInsert(p) ==
  /\ pc[p] = "ct_insert"
  /\ IF req[p].listId \in DOMAIN lists
     THEN /\ tasks' = InsertTask(tasks, NextId("tasks"), req[p].listId, req[p].position)
          /\ pc' = [pc EXCEPT ![p] = "done"]
          /\ req' = [req EXCEPT ![p].row = NextId("tasks"), ![p].status = 200]
     ELSE /\ tasks' = tasks
          /\ pc' = [pc EXCEPT ![p] = "failed"]
          /\ req' = [req EXCEPT ![p].status = 500]
  /\ serial' = [serial EXCEPT !.tasks = @ + 1]
  /\ UNCHANGED <<users, boards, board_members, lists, txw, base,
               board_chat_messages, emitted>>

(* ------------------- PATCH /api/tasks/:taskId/move --------------------- *)

\* the caller (userId) is in req.user and never read; BEGIN, then the first
\* UPDATE: shift the destination list's tasks
MoveTaskShift(p, taskId, destinationListId, newPosition, userId) ==
  /\ pc[p] = "idle"
  /\ ~TasksLocked(p, ShiftTasksMatch(tasks, destinationListId, newPosition))
  /\ \A id \in ShiftTasksMatch(tasks, destinationListId, newPosition) :
        tasks[id].position < MaxPos
  /\ txw' = [txw EXCEPT ![p].tasks =
               TxWrite(NoRows, tasks, ShiftTasks(tasks, destinationListId, newPosition))]
  /\ pc' = [pc EXCEPT ![p] = "mt_update"]
  /\ req' = [req EXCEPT ![p] =
               [NoReq EXCEPT !.op = "moveTask", !.taskId = taskId,
                             !.userId = userId,
                             !.listId = destinationListId, !.position = newPosition]]
  /\ base' = BaseAtStart
  /\ UNCHANGED <<users, boards, board_members, lists, tasks,
               serial, board_chat_messages, emitted>>

\* the second UPDATE: put the task at its place; it raises (err) on a taskId
\* that is no integer or when the statement is cancelled or times out, and on
\* a destination that names no list (the foreign key of list_id)
MoveTaskUpdate(p, err) ==
  /\ pc[p] = "mt_update"
  /\ LET V == TxView(tasks, txw[p].tasks)
         fk == req[p].taskId \in DOMAIN tasks /\ req[p].listId \notin DOMAIN lists
     IN  /\ ~TasksLocked(p, {req[p].taskId} \cap DOMAIN tasks)
         /\ IF err \/ fk
            THEN /\ pc' = [pc EXCEPT ![p] = "mt_rollback"]
                 /\ UNCHANGED <<txw, req>>
            ELSE /\ txw' = [txw EXCEPT ![p].tasks =
                       TxWrite(@, V, SetTask(V, req[p].listId, req[p].position, req[p].taskId))]
                 /\ pc' = [pc EXCEPT ![p] = "mt_commit"]
                 /\ req' = [req EXCEPT ![p].row =
                              IF req[p].taskId \in DOMAIN tasks THEN req[p].taskId ELSE 0]
  /\ UNCHANGED <<users, boards, board_members, lists, tasks, base,
               serial, board_chat_messages, emitted>>

\* COMMIT, then res.json(result.rows[0])
MoveTaskCommit(p) ==
  /\ pc[p] = "mt_commit"
  /\ tasks' = TxView(tasks, txw[p].tasks)
  /\ txw' = [txw EXCEPT ![p] = NoTx]
  /\ pc' = [pc EXCEPT ![p] = "done"]
  /\ req' = [req EXCEPT ![p].status = 200]
  /\ UNCHANGED <<users, boards, board_members, lists, base,
               serial, board_chat_messages, emitted>>

\* MoveTaskRollback with a fault: the catch block answers 500 without
\* ROLLBACK and what the transaction wrote is published
MoveTaskRollbackKeeps(p) ==
  /\ pc[p] = "mt_rollback"
  /\ tasks' = TxView(tasks, txw[p].tasks)
  /\ txw' = [txw EXCEPT ![p] = NoTx]
  /\ pc' = [pc EXCEPT ![p] = "failed"]
  /\ req' = [req EXCEPT ![p].status = 500]
  /\ UNCHANGED <<users, boards, board_members, lists, base,
               serial, board_chat_messages, emitted>>

\* catch: ROLLBACK, then res.status(500)
MoveTaskRollback(p) ==
  /\ pc[p] = "mt_rollback"
  /\ tasks' = tasks
  /\ txw' = [txw EXCEPT ![p] = NoTx]
  /\ pc' = [pc EXCEPT ![p] = "failed"]
  /\ req' = [req EXCEPT ![p].status = 500]
  /\ UNCHANGED <<users, boards, board_members, lists, base,
               serial, board_chat_messages, emitted>>

(* --------------------------- POST /api/boards -------------------------- *)

\* BEGIN; INSERT INTO boards; INSERT INTO board_members (.., 'owner'); COMMIT.
\* The transaction reads nothing another call writes, so it is one step.
CreateBoard(p, userId) ==
  /\ pc[p] = "idle"
  /\ serial.boards < MaxBoards
  /\ boards' = [b \in DOMAIN boards \cup {NextId("boards")} |->
                  IF b = NextId("boards") THEN [user_id |-> userId] ELSE boards[b]]
  /\ board_members' = board_members \cup
        {[board_id |-> NextId("boards"), user_id |-> userId, role |-> "owner"]}
  /\ pc' = [pc EXCEPT ![p] = "done"]
  /\ req' = [req EXCEPT ![p] =
               [NoReq EXCEPT !.op = "createBoard", !.userId = userId,
                             !.row = NextId("boards"), !.status = 200]]
  /\ serial' = [serial EXCEPT !.boards = @ + 1]
  /\ base' = BaseAtStart
  /\ UNCHANGED <<users, lists, tasks, txw,
               board_chat_messages, emitted>>

(* ------------------- POST /api/boards/:boardId/lists ------------------- *)

\* first await: the board must belong to the caller, else 404
CreateListCheck(p, boardId, userId) ==
  /\ pc[p] = "idle"
  /\ serial.lists + InFlight("cl_read") + InFlight("cl_insert") < MaxLists
  /\ ListNextPos(lists, boardId) <= MaxPos
  /\ IF BoardOwnerRows(boards, boardId, userId) = {}
     THEN /\ pc' = [pc EXCEPT ![p] = "failed"]
          /\ req' = [req EXCEPT ![p] =
                       [NoReq EXCEPT !.op = "createList", !.boardId = boardId,
                                     !.userId = userId, !.status = 404]]
     ELSE /\ pc' = [pc EXCEPT ![p] = "cl_read"]
          /\ req' = [req EXCEPT ![p] =
                       [NoReq EXCEPT !.op = "createList", !.boardId = boardId,
                                     !.userId = userId]]
  /\ base' = BaseAtStart
  /\ UNCHANGED <<users, boards, board_members, lists, tasks, txw,
               serial, board_chat_messages, emitted>>

\* second await: the SELECT of the next position
CreateListRead(p) ==
  /\ pc[p] = "cl_read"
  /\ ListNextPos(lists, req[p].boardId) <= MaxPos
  /\ pc' = [pc EXCEPT ![p] = "cl_insert"]
  /\ req' = [req EXCEPT ![p].position = ListNextPos(lists, req[p].boardId)]
  /\ UNCHANGED <<users, boards, board_members, lists, tasks, txw, base,
               serial, board_chat_messages, emitted>>

\* third await: the INSERT, then res.json({...row, tasks: []})
CreateListInsert(p) ==
  /\ pc[p] = "cl_insert"
  /\ IF req[p].boardId \in DOMAIN boards
     THEN /\ lists' = InsertList(lists, NextId("lists"), req[p].boardId, req[p].position)
          /\ pc' = [pc EXCEPT ![p] = "done"]
          /\ req' = [req EXCEPT ![p].row = NextId("lists"), ![p].status = 200]
     ELSE /\ lists' = lists
          /\ pc' = [pc EXCEPT ![p] = "failed"]
          /\ req' = [req EXCEPT ![p].status = 500]
  /\ serial' = [serial EXCEPT !.lists = @ + 1]
  /\ UNCHANGED <<users, boards, board_members, tasks, txw, base,
               board_chat_messages, emitted>>

(* ------------------- PATCH /api/lists/:listId/move --------------------- *)

\* BEGIN, then the permission SELECT: no row throws 'Not authorized'
MoveListCheck(p, listId, position, boardId, userId) ==
  /\ pc[p] = "idle"
  /\ \A id \in ShiftListsMatch(lists, boardId, position) : lists[id].position < MaxPos
  /\ pc' = [pc EXCEPT ![p] =
              IF ListMemberRows(lists, board_members, listId, userId) = {}
              THEN "ml_rollback" ELSE "ml_shift"]
  /\ req' = [req EXCEPT ![p] =
               [NoReq EXCEPT !.op = "moveList", !.listId = listId, !.boardId = boardId,
                             !.position = position, !.userId = userId]]
  /\ base' = BaseAtStart
  /\ UNCHANGED <<users, boards, board_members, lists, tasks, txw,
               serial, board_chat_messages, emitted>>

\* the first UPDATE: shift the lists of the board named in the request body
MoveListShift(p) ==
  /\ pc[p] = "ml_shift"
  /\ ~ListsLocked(p, ShiftListsMatch(lists, req[p].boardId, req[p].position))
  /\ \A id \in ShiftListsMatch(lists, req[p].boardId, req[p].position) :
        lists[id].position < MaxPos
  /\ txw' = [txw EXCEPT ![p].lists =
               TxWrite(NoRows, lists, ShiftLists(lists, req[p].boardId, req[p].position))]
  /\ pc' = [pc EXCEPT ![p] = "ml_update"]
  /\ UNCHANGED <<users, boards, board_members, lists, tasks, req, base,
               serial, board_chat_messages, emitted>>

\* the second UPDATE: put the list at its place; it raises (err) when the
\* statement is cancelled or times out
MoveListUpdate(p, err) ==
  /\ pc[p] = "ml_update"
  /\ LET V == TxView(lists, txw[p].lists)
     IN  /\ ~ListsLocked(p, {req[p].listId} \cap DOMAIN lists)
         /\ IF err
            THEN /\ pc' = [pc EXCEPT ![p] = "ml_rollback"]
                 /\ UNCHANGED <<txw, req>>
            ELSE /\ txw' = [txw EXCEPT ![p].lists =
                       TxWrite(@, V, SetList(V, req[p].position, req[p].listId))]
                 /\ pc' = [pc EXCEPT ![p] = "ml_commit"]
                 /\ req' = [req EXCEPT ![p].row = req[p].listId]
  /\ UNCHANGED <<users, boards, board_members, lists, tasks, base,
               serial, board_chat_messages, emitted>>

\* COMMIT, then res.json(result.rows[0])
MoveListCommit(p) ==
  /\ pc[p] = "ml_commit"
  /\ lists' = TxView(lists, txw[p].lists)
  /\ txw' = [txw EXCEPT ![p] = NoTx]
  /\ pc' = [pc EXCEPT ![p] = "done"]
  /\ req' = [req EXCEPT ![p].status = 200]
  /\ UNCHANGED <<users, boards, board_members, tasks, base,
               serial, board_chat_messages, emitted>>

\* catch: ROLLBACK, then res.status(500)
MoveListRollback(p) ==
  /\ pc[p] = "ml_rollback"
  /\ lists' = lists
  /\ txw' = [txw EXCEPT ![p] = NoTx]
  /\ pc' = [pc EXCEPT ![p] = "failed"]
  /\ req' = [req EXCEPT ![p].status = 500]
  /\ UNCHANGED <<users, boards, board_members, tasks, base,
               serial, board_chat_messages, emitted>>

(* ------------- GET /api/boards/:id, /api/boards/:boardId/lists --------- *)

\* SELECT b.*, bm.role FROM boards b JOIN board_members bm ON b.id = bm.board_id
\*  WHERE b.id = $1 AND bm.user_id = $2
BoardMemberRows(B, M, id, userId) ==
  {m \in MemberRows(M, id, userId) : id \in DOMAIN B}

\* SELECT l.*, (SELECT json_agg(...) FROM tasks t WHERE t.list_id = l.id) as tasks
\*  FROM lists l WHERE l.board_id = $1: the lists and the tasks the answer holds
BoardListRows(L, T, boardId) ==
  {<<"list", l>> : l \in ListsOf(L, boardId)}
    \cup {<<"task", t>> : t \in {i \in DOMAIN T : T[i].list_id \in ListsOf(L, boardId)}}

\* one await: no row for the caller answers 404, else the board with the role
GetBoard(p, id, userId) ==
  /\ pc[p] = "idle"
  /\ IF BoardMemberRows(boards, board_members, id, userId) = {}
     THEN /\ pc' = [pc EXCEPT ![p] = "failed"]
          /\ req' = [req EXCEPT ![p] =
                       [NoReq EXCEPT !.op = "getBoard", !.boardId = id,
                                     !.userId = userId, !.status = 404]]
     ELSE /\ pc' = [pc EXCEPT ![p] = "done"]
          /\ req' = [req EXCEPT ![p] =
                       [NoReq EXCEPT !.op = "getBoard", !.boardId = id,
                                     !.userId = userId, !.row = id, !.status = 200,
                                     !.role = RowRole(BoardMemberRows(boards, board_members, id, userId))]]
  /\ base' = BaseAtStart
  /\ UNCHANGED <<users, boards, board_members, lists, tasks, txw,
                 serial, board_chat_messages, emitted>>

\* one await: the lists of the board with their tasks; the caller (userId) is
\* in req.user and never read
GetLists(p, boardId, userId) ==
  /\ pc[p] = "idle"
  /\ pc' = [pc EXCEPT ![p] = "done"]
  /\ req' = [req EXCEPT ![p] =
               [NoReq EXCEPT !.op = "getLists", !.boardId = boardId, !.userId = userId,
                             !.rows = BoardListRows(lists, tasks, boardId),
                             !.status = 200]]
  /\ base' = BaseAtStart
  /\ UNCHANGED <<users, boards, board_members, lists, tasks, txw,
                 serial, board_chat_messages, emitted>>

(* ----------------- POST /api/boards/:boardId/members ------------------- *)

\* the role strings a request body carries: the three roles, another string,
\* and "" for a body without role
RequestRoles == DOMAIN roles \cup {"viewer", ""}

\* first await: the caller (userId) must hold a row with role 'owner', else
\* 403; memberId is the userId of the request body
AddMemberCheck(p, boardId, memberId, role, userId) ==
  /\ pc[p] = "idle"
  /\ IF OwnerRows(board_members, boardId, userId) = {}
     THEN /\ pc' = [pc EXCEPT ![p] = "failed"]
          /\ req' = [req EXCEPT ![p] =
                       [NoReq EXCEPT !.op = "addMember", !.boardId = boardId,
                                     !.memberId = memberId, !.role = role,
                                     !.userId = userId, !.status = 403]]
     ELSE /\ pc' = [pc EXCEPT ![p] = "am_insert"]
          /\ req' = [req EXCEPT ![p] =
                       [NoReq EXCEPT !.op = "addMember", !.boardId = boardId,
                                     !.memberId = memberId, !.role = role,
                                     !.userId = userId]]
  /\ base' = BaseAtStart
  /\ UNCHANGED <<users, boards, board_members, lists, tasks, txw,
                 serial, board_chat_messages, emitted>>

\* AddMemberInsert with a fault: the table has no UNIQUE(board_id, user_id)
AddMemberInsertNoUnique(p) ==
  /\ pc[p] = "am_insert"
  /\ IF req[p].boardId \notin DOMAIN boards
     THEN /\ board_members' = board_members
          /\ pc' = [pc EXCEPT ![p] = "failed"]
          /\ req' = [req EXCEPT ![p].status = 500]
     ELSE /\ board_members' = board_members \cup
                {[board_id |-> req[p].boardId, user_id |-> req[p].memberId,
                  role |-> IF req[p].role = "" THEN "member" ELSE req[p].role]}
          /\ pc' = [pc EXCEPT ![p] = "done"]
          /\ req' = [req EXCEPT ![p].status = 200]
  /\ UNCHANGED <<users, boards, lists, tasks, txw, base,
                 serial, board_chat_messages, emitted>>

\* second await: INSERT (board_id, userId, role || 'member'); a second row for
\* the pair violates UNIQUE(board_id, user_id), a deleted board the foreign
\* key, and the catch block answers 500
AddMemberInsert(p) ==
  /\ pc[p] = "am_insert"
  /\ IF \/ MemberRows(board_members, req[p].boardId, req[p].memberId) # {}
        \/ req[p].boardId \notin DOMAIN boards
     THEN /\ board_members' = board_members
          /\ pc' = [pc EXCEPT ![p] = "failed"]
          /\ req' = [req EXCEPT ![p].status = 500]
     ELSE /\ board_members' = board_members \cup
                {[board_id |-> req[p].boardId, user_id |-> req[p].memberId,
                  role |-> IF req[p].role = "" THEN "member" ELSE req[p].role]}
          /\ pc' = [pc EXCEPT ![p] = "done"]
          /\ req' = [req EXCEPT ![p].status = 200]
  /\ UNCHANGED <<users, boards, lists, tasks, txw, base,
                 serial, board_chat_messages, emitted>>

(* ------------ DELETE /api/boards/:boardId/members/:memberId ------------ *)

\* first await: the caller must hold a row with role 'owner' or 'admin'
RemoveMemberCheck(p, boardId, memberId, userId) ==
  /\ pc[p] = "idle"
  /\ IF OwnerAdminRows(board_members, boardId, userId) = {}
     THEN /\ pc' = [pc EXCEPT ![p] = "failed"]
          /\ req' = [req EXCEPT ![p] =
                       [NoReq EXCEPT !.op = "removeMember", !.boardId = boardId,
                                     !.memberId = memberId, !.userId = userId,
                                     !.status = 403]]
     ELSE /\ pc' = [pc EXCEPT ![p] = "rm_target"]
          /\ req' = [req EXCEPT ![p] =
                       [NoReq EXCEPT !.op = "removeMember", !.boardId = boardId,
                                     !.memberId = memberId, !.userId = userId]]
  /\ base' = BaseAtStart
  /\ UNCHANGED <<users, boards, board_members, lists, tasks, txw,
                 serial, board_chat_messages, emitted>>

\* second await: targetCheck.rows[0]?.role === 'owner' answers 403
RemoveMemberTarget(p) ==
  /\ pc[p] = "rm_target"
  /\ IF OwnerRows(board_members, req[p].boardId, req[p].memberId) # {}
     THEN /\ pc' = [pc EXCEPT ![p] = "failed"]
          /\ req' = [req EXCEPT ![p].status = 403]
     ELSE /\ pc' = [pc EXCEPT ![p] = "rm_delete"]
          /\ req' = req
  /\ UNCHANGED <<users, boards, board_members, lists, tasks, txw, base,
                 serial, board_chat_messages, emitted>>

\* third await: DELETE FROM board_members WHERE board_id = $1 AND user_id = $2
RemoveMemberDelete(p) ==
  /\ pc[p] = "rm_delete"
  /\ board_members' = board_members \ MemberRows(board_members, req[p].boardId, req[p].memberId)
  /\ pc' = [pc EXCEPT ![p] = "done"]
  /\ req' = [req EXCEPT ![p].status = 200]
  /\ UNCHANGED <<users, boards, lists, tasks, txw, base,
                 serial, board_chat_messages, emitted>>

(* ------------- PATCH /api/boards/:boardId/members/:memberId ------------ *)

\* first await: the caller must hold a row with role 'owner'
ChangeMemberRoleCheck(p, boardId, memberId, role, userId) ==
  /\ pc[p] = "idle"
  /\ IF OwnerRows(board_members, boardId, userId) = {}
     THEN /\ pc' = [pc EXCEPT ![p] = "failed"]
          /\ req' = [req EXCEPT ![p] =
                       [NoReq EXCEPT !.op = "changeMemberRole", !.boardId = boardId,
                                     !.memberId = memberId, !.role = role,
                                     !.userId = userId, !.status = 403]]
     ELSE /\ pc' = [pc EXCEPT ![p] = "cr_update"]
          /\ req' = [req EXCEPT ![p] =
                       [NoReq EXCEPT !.op = "changeMemberRole", !.boardId = boardId,
                                     !.memberId = memberId, !.role = role,
                                     !.userId = userId]]
  /\ base' = BaseAtStart
  /\ UNCHANGED <<users, boards, board_members, lists, tasks, txw,
                 serial, board_chat_messages, emitted>>

\* second await: UPDATE board_members SET role = $1 WHERE board_id = $2 AND
\* user_id = $3; a body without role sets NULL, which role NOT NULL refuses on
\* a matched row (500)
ChangeMemberRoleUpdate(p) ==
  /\ pc[p] = "cr_update"
  /\ LET rows == MemberRows(board_members, req[p].boardId, req[p].memberId)
     IN  IF rows # {} /\ req[p].role = ""
         THEN /\ board_members' = board_members
              /\ pc' = [pc EXCEPT ![p] = "failed"]
              /\ req' = [req EXCEPT ![p].status = 500]
         ELSE /\ board_members' = (board_members \ rows) \cup
                    {[m EXCEPT !.role = req[p].role] : m \in rows}
              /\ pc' = [pc EXCEPT ![p] = "done"]
              /\ req' = [req EXCEPT ![p].status = 200]
  /\ UNCHANGED <<users, boards, lists, tasks, txw, base,
                 serial, board_chat_messages, emitted>>

(* ----------------- POST /api/boards/:boardId/messages ------------------ *)

\* first await: the caller must hold a membership row on the board, else 403
PostMessageCheck(p, boardId, userId) ==
  /\ pc[p] = "idle"
  /\ serial.board_chat_messages + InFlight("pm_insert") < MaxMessages
  /\ IF MemberRows(board_members, boardId, userId) = {}
     THEN /\ pc' = [pc EXCEPT ![p] = "failed"]
          /\ req' = [req EXCEPT ![p] =
                       [NoReq EXCEPT !.op = "postMessage", !.boardId = boardId,
                                     !.userId = userId, !.status = 403]]
     ELSE /\ pc' = [pc EXCEPT ![p] = "pm_insert"]
          /\ req' = [req EXCEPT ![p] =
                       [NoReq EXCEPT !.op = "postMessage", !.boardId = boardId,
                                     !.userId = userId]]
  /\ base' = BaseAtStart
  /\ UNCHANGED <<users, boards, board_members, lists, tasks, txw,
                 serial, board_chat_messages, emitted>>

\* second await: the INSERT, then res.json(row); nothing is emitted
PostMessageInsert(p) ==
  /\ pc[p] = "pm_insert"
  /\ IF req[p].boardId \in DOMAIN boards
     THEN /\ board_chat_messages' =
                InsertMessage(board_chat_messages, NextId("board_chat_messages"),
                              req[p].boardId, req[p].userId)
          /\ pc' = [pc EXCEPT ![p] = "done"]
          /\ req' = [req EXCEPT ![p].row = NextId("board_chat_messages"),
                                ![p].status = 200]
     ELSE /\ board_chat_messages' = board_chat_messages
          /\ pc' = [pc EXCEPT ![p] = "failed"]
          /\ req' = [req EXCEPT ![p].status = 500]
  /\ serial' = [serial EXCEPT !.board_chat_messages = @ + 1]
  /\ UNCHANGED <<users, boards, board_members, lists, tasks, txw, base, emitted>>

(* --------------------- socket.on('board-message') ---------------------- *)

\* the sender (userId) is socket.user, set by io.use from the token; first
\* await: the INSERT, with no query of board_members before it; a boardId that
\* names no board violates the foreign key and the catch block sends
\* 'message-error' to the sender's socket only
BoardMessageInsert(p, boardId, userId) ==
  /\ pc[p] = "idle"
  /\ serial.board_chat_messages + InFlight("pm_insert") < MaxMessages
  /\ IF boardId \in DOMAIN boards
     THEN /\ board_chat_messages' =
                InsertMessage(board_chat_messages, NextId("board_chat_messages"),
                              boardId, userId)
          /\ pc' = [pc EXCEPT ![p] = "bm_select"]
          /\ req' = [req EXCEPT ![p] =
                       [NoReq EXCEPT !.op = "boardMessage", !.boardId = boardId,
                                     !.userId = userId,
                                     !.row = NextId("board_chat_messages")]]
     ELSE /\ board_chat_messages' = board_chat_messages
          /\ pc' = [pc EXCEPT ![p] = "failed"]
          /\ req' = [req EXCEPT ![p] =
                       [NoReq EXCEPT !.op = "boardMessage", !.boardId = boardId,
                                     !.userId = userId, !.status = 500]]
  /\ serial' = [serial EXCEPT !.board_chat_messages = @ + 1]
  /\ base' = BaseAtStart
  /\ UNCHANGED <<users, boards, board_members, lists, tasks, txw, emitted>>

\* second await: the SELECT of the sender's name, then
\* io.to(`board-${boardId}`).emit('new-message', messageWithUser)
BoardMessageEmit(p) ==
  /\ pc[p] = "bm_select"
  /\ emitted' = Append(emitted, [room |-> req[p].boardId, event |-> "new-message",
                                 chat_message_id |-> req[p].row,
                                 user_id |-> req[p].userId])
  /\ pc' = [pc EXCEPT ![p] = "done"]
  /\ req' = [req EXCEPT ![p].status = 200]
  /\ UNCHANGED <<users, boards, board_members, lists, tasks, txw, base,
                 serial, board_chat_messages>>

(* ------------- DELETE and PATCH /api/boards/:boardId ------------------- *)

\* the role each route hands to checkBoardPermission
RequiredRole == [deleteBoard |-> "owner", updateBoard |-> "admin"]

\* the middleware: its SELECT, then 403 or req.userRole = userRole; next()
BoardPermissionCheck(p, op, boardId, userId) ==
  /\ pc[p] = "idle"
  /\ IF checkBoardPermission(board_members, boardId, userId, RequiredRole[op])
     THEN /\ pc' = [pc EXCEPT ![p] = "handler"]
          /\ req' = [req EXCEPT ![p] =
                       [NoReq EXCEPT !.op = op, !.boardId = boardId, !.userId = userId,
                                     !.role = RowRole(MemberRows(board_members, boardId, userId))]]
     ELSE /\ pc' = [pc EXCEPT ![p] = "failed"]
          /\ req' = [req EXCEPT ![p] =
                       [NoReq EXCEPT !.op = op, !.boardId = boardId, !.userId = userId,
                                     !.status = 403]]
  /\ base' = BaseAtStart
  /\ UNCHANGED <<users, boards, board_members, lists, tasks, txw,
                 serial, board_chat_messages, emitted>>

\* the handler of DELETE: DELETE FROM boards WHERE id = $1; the lists, tasks,
\* members and messages of the board go with it (ON DELETE CASCADE)
DeleteBoard(p) ==
  /\ pc[p] = "handler"
  /\ req[p].op = "deleteBoard"
  /\ ~ListsLocked(p, ListsOf(lists, req[p].boardId))
  /\ ~TasksLocked(p, DOMAIN tasks \ DOMAIN CascadeTasks(tasks, lists, req[p].boardId))
  /\ boards' = DeleteBoardRows(boards, req[p].boardId)
  /\ lists' = CascadeLists(lists, req[p].boardId)
  /\ tasks' = CascadeTasks(tasks, lists, req[p].boardId)
  /\ board_members' = CascadeMembers(board_members, req[p].boardId)
  /\ board_chat_messages' = CascadeMessages(board_chat_messages, req[p].boardId)
  /\ pc' = [pc EXCEPT ![p] = "done"]
  /\ req' = [req EXCEPT ![p].status = 200]
  /\ UNCHANGED <<users, txw, base, serial, emitted>>

\* the handler of PATCH: UPDATE boards SET title = $1, description = $2; the
\* table boards has no column description, the query raises and the catch
\* block answers 500
UpdateBoard(p) ==
  /\ pc[p] = "handler"
  /\ req[p].op = "updateBoard"
  /\ pc' = [pc EXCEPT ![p] = "failed"]
  /\ req' = [req EXCEPT ![p].status = 500]
  /\ UNCHANGED <<users, boards, board_members, lists, tasks, txw, base,
                 serial, board_chat_messages, emitted>>

(* --------------------------- POST /api/register ------------------------ *)

\* the emails and usernames of requests; NoName is a username the request
\* body does not carry
Names == 1..MaxNames
NoName == 0

\* SELECT id FROM users WHERE username = $1 [AND id != $2]
UsernameRows(U, username, except) ==
  {u \in DOMAIN U : U[u].username = username /\ u # except}

\* the UNIQUE constraint users_email_key
EmailTaken(U, email) == \E u \in DOMAIN U : U[u].email = email

\* first await: the username check; a taken username answers 400
RegisterCheck(p, email, username) ==
  /\ pc[p] = "idle"
  /\ serial.users < MaxAccounts
  /\ pc' = [pc EXCEPT ![p] =
              IF UsernameRows(users, username, 0) # {} THEN "failed" ELSE "rg_insert"]
  /\ req' = [req EXCEPT ![p] =
               [NoReq EXCEPT !.op = "register", !.email = email, !.username = username,
                             !.status = IF UsernameRows(users, username, 0) # {}
                                        THEN 400 ELSE 0]]
  /\ base' = BaseAtStart
  /\ UNCHANGED <<users, boards, board_members, lists, tasks, txw,
                 serial, board_chat_messages, emitted>>

\* after bcrypt.hash: the INSERT; users_email_key rejects a registered email
\* (400), and the rejected INSERT has taken its id from the sequence
RegisterInsert(p) ==
  /\ pc[p] = "rg_insert"
  /\ serial' = [serial EXCEPT !.users = @ + 1]
  /\ IF EmailTaken(users, req[p].email)
     THEN /\ pc' = [pc EXCEPT ![p] = "failed"]
          /\ req' = [req EXCEPT ![p].status = 400]
          /\ UNCHANGED users
     ELSE /\ users' = [u \in DOMAIN users \cup {NextId("users")} |->
                         IF u = NextId("users")
                         THEN [email |-> req[p].email, username |-> req[p].username]
                         ELSE users[u]]
          /\ pc' = [pc EXCEPT ![p] = "done"]
          /\ req' = [req EXCEPT ![p].status = 200, ![p].row = NextId("users")]
  /\ UNCHANGED <<boards, board_members, lists, tasks, txw, base,
                 board_chat_messages, emitted>>

(* ------------------------ PATCH /api/users/profile --------------------- *)

\* if (username): the check that no other user has it, else 400; a request
\* without a username goes on to the UPDATE unchecked
UpdateProfileCheck(p, username, userId) ==
  /\ pc[p] = "idle"
  /\ pc' = [pc EXCEPT ![p] =
              IF username # NoName /\ UsernameRows(users, username, userId) # {}
              THEN "failed" ELSE "up_update"]
  /\ req' = [req EXCEPT ![p] =
               [NoReq EXCEPT !.op = "updateProfile", !.username = username,
                             !.userId = userId,
                             !.status = IF username # NoName
                                           /\ UsernameRows(users, username, userId) # {}
                                        THEN 400 ELSE 0]]
  /\ base' = BaseAtStart
  /\ UNCHANGED <<users, boards, board_members, lists, tasks, txw,
                 serial, board_chat_messages, emitted>>

\* UPDATE users SET username = COALESCE($1, username) WHERE id = $4;
\* no row answers 404
UpdateProfileUpdate(p) ==
  /\ pc[p] = "up_update"
  /\ IF req[p].userId \in DOMAIN users
     THEN /\ users' = [users EXCEPT ![req[p].userId].username =
                         IF req[p].username = NoName THEN @ ELSE req[p].username]
          /\ pc' = [pc EXCEPT ![p] = "done"]
          /\ req' = [req EXCEPT ![p].status = 200]
     ELSE /\ pc' = [pc EXCEPT ![p] = "failed"]
          /\ req' = [req EXCEPT ![p].status = 404]
          /\ UNCHANGED users
  /\ UNCHANGED <<boards, board_members, lists, tasks, txw, base,
                 serial, board_chat_messages, emitted>>

(* ------------------------- the response is read ------------------------ *)

Respond(p) ==
  /\ pc[p] \in {"done", "failed"}
  /\ pc' = [pc EXCEPT ![p] = "idle"]
  /\ req' = [req EXCEPT ![p] = NoReq]
  /\ base' = NoBase
  /\ UNCHANGED <<users, boards, board_members, lists, tasks, txw,
               serial, board_chat_messages, emitted>>

(* ---------------------------- specifications --------------------------- *)

\* the steps of the createTask and moveTask calls of the callers in U
TaskStepOf(p, U) ==
  \/ \E listId \in ListIds, userId \in U : CreateTaskRead(p, listId, userId)
  \/ CreateTaskInsert(p)
  \/ \E taskId \in TaskIds, destinationListId \in ListIds, newPosition \in Positions,
        userId \in U :
        MoveTaskShift(p, taskId, destinationListId, newPosition, userId)
  \/ \E err \in BOOLEAN : MoveTaskUpdate(p, err)
  \/ MoveTaskCommit(p)
  \/ MoveTaskRollback(p)

\* the user who created the board of InitLists
FirstUser == CHOOSE u \in Users : \A v \in Users : u <= v

\* task calls made by the user who created the board
TaskStep(p) == TaskStepOf(p, {FirstUser})

MoveListStep(p) ==
  \/ \E listId \in ListIds, position \in Positions, boardId \in BoardIds, userId \in Users :
        MoveListCheck(p, listId, position, boardId, userId)
  \/ MoveListShift(p)
  \/ \E err \in BOOLEAN : MoveListUpdate(p, err)
  \/ MoveListCommit(p)
  \/ MoveListRollback(p)

ListStep(p) ==
  \/ \E userId \in Users : CreateBoard(p, userId)
  \/ \E boardId \in BoardIds, userId \in Users : CreateListCheck(p, boardId, userId)
  \/ CreateListRead(p)
  \/ CreateListInsert(p)
  \/ MoveListStep(p)

MemberStep(p) ==
  \/ \E boardId \in BoardIds, memberId \in Users, role \in RequestRoles, userId \in Users :
        AddMemberCheck(p, boardId, memberId, role, userId)
  \/ AddMemberInsert(p)
  \/ \E boardId \in BoardIds, memberId \in Users, userId \in Users :
        RemoveMemberCheck(p, boardId, memberId, userId)
  \/ RemoveMemberTarget(p)
  \/ RemoveMemberDelete(p)
  \/ \E boardId \in BoardIds, memberId \in Users, role \in RequestRoles, userId \in Users :
        ChangeMemberRoleCheck(p, boardId, memberId, role, userId)
  \/ ChangeMemberRoleUpdate(p)

ViewStep(p) ==
  \/ \E id \in BoardIds, userId \in Users : GetBoard(p, id, userId)
  \/ \E boardId \in BoardIds, userId \in Users : GetLists(p, boardId, userId)

ChatStep(p) ==
  \/ \E boardId \in BoardIds, userId \in Users : PostMessageCheck(p, boardId, userId)
  \/ PostMessageInsert(p)
  \/ \E boardId \in BoardIds, userId \in Users : BoardMessageInsert(p, boardId, userId)
  \/ BoardMessageEmit(p)

BoardStep(p) ==
  \/ \E op \in DOMAIN RequiredRole, boardId \in BoardIds, userId \in Users :
        BoardPermissionCheck(p, op, boardId, userId)
  \/ DeleteBoard(p)
  \/ UpdateBoard(p)

UserStep(p) ==
  \/ \E email \in Names, username \in Names : RegisterCheck(p, email, username)
  \/ RegisterInsert(p)
  \/ \E username \in Names \cup {NoName}, userId \in Users :
        UpdateProfileCheck(p, username, userId)
  \/ UpdateProfileUpdate(p)

\* the process of a run in which calls are made one at a time
SeqProc == CHOOSE p \in Procs : \A q \in Procs : p <= q

\* createTask and moveTask calls, one at a time, on a board that has its lists
NextTask == TaskStep(SeqProc) \/ Respond(SeqProc)
SpecTask == InitLists /\ [][NextTask]_vars

\* createBoard, createList and moveList calls, one at a time, from the empty database
NextList == ListStep(SeqProc) \/ Respond(SeqProc)
SpecList == Init /\ [][NextList]_vars

\* the lists are where createList put them: no moveList call has moved one
ListsAsCreated == \A l \in DOMAIN lists : lists[l].position = l

\* calls made one at a time on a board that has its lists: createTask and
\* moveTask calls while no list has been moved, moveList calls while the
\* lists hold no task (moveTask writes no list and moveList writes no task)
NextMove ==
  \/ ListsAsCreated /\ TaskStep(SeqProc)
  \/ tasks = NoRows /\ MoveListStep(SeqProc)
  \/ Respond(SeqProc)
SpecMove == InitLists /\ [][NextMove]_vars

\* createTask and moveTask calls of all processes, interleaved between their awaits
NextConc == \E p \in Procs : TaskStep(p) \/ Respond(p)
SpecConc == InitLists /\ [][NextConc]_vars

\* addMember, removeMember and changeMemberRole calls and the two routes
\* behind checkBoardPermission, one at a time, on a board that has its lists
NextMember == MemberStep(SeqProc) \/ BoardStep(SeqProc) \/ Respond(SeqProc)
SpecMember == InitLists /\ [][NextMember]_vars

\* createTask, moveTask, getBoard and getLists calls of every user, one at a
\* time, on a board that has its lists and whose only member is its creator
NextAuth == TaskStepOf(SeqProc, Users) \/ ViewStep(SeqProc) \/ Respond(SeqProc)
SpecAuth == InitLists /\ [][NextAuth]_vars

\* createBoard, addMember and createList calls, one at a time, from the empty
\* database
NextShare ==
  \/ \E userId \in Users : CreateBoard(SeqProc, userId)
  \/ \E boardId \in BoardIds, memberId \in Users, role \in RequestRoles, userId \in Users :
        AddMemberCheck(SeqProc, boardId, memberId, role, userId)
  \/ AddMemberInsert(SeqProc)
  \/ \E boardId \in BoardIds, userId \in Users : CreateListCheck(SeqProc, boardId, userId)
  \/ CreateListRead(SeqProc)
  \/ CreateListInsert(SeqProc)
  \/ Respond(SeqProc)
SpecShare == Init /\ [][NextShare]_vars

\* chat messages of every user over both entry points, and addMember,
\* removeMember and changeMemberRole calls, one at a time, on a board whose
\* only member at first is its creator
NextChat == ChatStep(SeqProc) \/ MemberStep(SeqProc) \/ Respond(SeqProc)
SpecChat == InitLists /\ [][NextChat]_vars

\* addMember calls of all processes and all users, with role admin or with no
\* role, interleaved between their awaits, on the board a createBoard call
\* has left
NextJoin ==
  \E p \in Procs :
    \/ \E boardId \in DOMAIN boards, memberId \in Users, role \in {"admin", ""},
          userId \in Users :
          AddMemberCheck(p, boardId, memberId, role, userId)
    \/ AddMemberInsert(p)
    \/ Respond(p)
SpecJoin == InitLists /\ [][NextJoin]_vars

\* the createList and moveList calls of the user who created the board
AppendListStep(p) ==
  \/ \E boardId \in BoardIds : CreateListCheck(p, boardId, FirstUser)
  \/ CreateListRead(p)
  \/ CreateListInsert(p)
  \/ \E listId \in ListIds, position \in Positions, boardId \in BoardIds :
        MoveListCheck(p, listId, position, boardId, FirstUser)
  \/ MoveListShift(p)
  \/ \E err \in BOOLEAN : MoveListUpdate(p, err)
  \/ MoveListCommit(p)
  \/ MoveListRollback(p)

\* calls made one at a time on a board that has its first list: createList
\* and moveList calls while the lists hold no task, createTask and moveTask
\* calls once the board has all its lists where createList put them
NextAppend ==
  \/ tasks = NoRows /\ AppendListStep(SeqProc)
  \/ ListsAsCreated /\ serial.lists = MaxLists /\ TaskStep(SeqProc)
  \/ Respond(SeqProc)
SpecAppend == InitBoard /\ [][NextAppend]_vars

\* register and updateProfile calls of all processes, interleaved between
\* their awaits
NextUser == \E p \in Procs : UserStep(p) \/ Respond(p)
SpecUser == InitLists /\ [][NextUser]_vars

\* every handler of every process, from the empty database
Next ==
  \E p \in Procs :
    \/ TaskStepOf(p, Users) \/ ListStep(p) \/ MemberStep(p) \/ BoardStep(p)
    \/ ViewStep(p) \/ ChatStep(p) \/ UserStep(p) \/ Respond(p)
Spec == Init /\ [][Next]_vars

(* ------------------------------- claims -------------------------------- *)

Dense(T, listId) ==
  {T[id].position : id \in TasksOf(T, listId)} = 0..(Cardinality(TasksOf(T, listId)) - 1)

\* process p has answered 200 to a moveTask call that found its task
MovedTask(p) ==
  /\ pc[p] = "done"
  /\ req[p].op = "moveTask"
  /\ base.set
  /\ req[p].taskId \in DOMAIN base.tasks

\* C1: density -- in a run of createTask and moveTask calls made one at a time
\* the positions of the n tasks of every list are exactly 0..n-1 (the code's
\* createList computes the position of a list the way createTask does for a task)
C1_Density == \A listId \in DOMAIN lists : Dense(tasks, listId)

\* C2: concurrent createTask calls on one list leave the tasks they created
\* with pairwise distinct positions
C2_ConcurrentCreatesDistinct ==
  \A p, q \in Procs :
    (/\ p # q
     /\ base.set
     /\ pc[p] = "done" /\ req[p].op = "createTask"
     /\ pc[q] = "done" /\ req[q].op = "createTask"
     /\ req[p].listId = req[q].listId)
    => tasks[req[p].row].position # tasks[req[q].row].position

\* the tasks table after the call that process p answered, run alone on table T
SerialCall(T, p) ==
  IF pc[p] = "failed" THEN T
  ELSE IF req[p].op = "createTask"
  THEN InsertTask(T, req[p].row, req[p].listId, TaskNextPos(T, req[p].listId))
  ELSE SetTask(ShiftTasks(T, req[p].listId, req[p].position),
               req[p].listId, req[p].position, req[p].taskId)

\* C3: isolation -- when two calls among createTask/moveTask ran concurrently,
\* the committed tasks are what running the two calls one after the other, in
\* one of the two orders, leaves
C3_Serializable ==
  \A p, q \in Procs :
    (/\ p # q
     /\ base.set
     /\ pc[p] \in {"done", "failed"} /\ pc[q] \in {"done", "failed"}
     /\ \A r \in Procs \ {p, q} : pc[r] = "idle")
    => \/ tasks = SerialCall(SerialCall(base.tasks, p), q)
       \/ tasks = SerialCall(SerialCall(base.tasks, q), p)

\* C4: no two tasks of one list have the same position, in every state of a
\* run of createTask and moveTask calls made one at a time
C4_TaskPositionsUnique ==
  \A i, j \in DOMAIN tasks :
    (i # j /\ tasks[i].list_id = tasks[j].list_id)
    => tasks[i].position # tasks[j].position

\* a moveTask call has committed a move into a list that holds another task
C4_Witness ==
  \E p \in Procs :
    /\ MovedTask(p)
    /\ ShiftTasksMatch(base.tasks, req[p].listId, req[p].position) \ {req[p].taskId} # {}
    /\ Cardinality(TasksOf(tasks, req[p].listId)) >= 2

\* C5: no two lists of one board have the same position, in every state of a
\* run of createList and moveList calls made one at a time
C5_ListPositionsUnique ==
  \A i, j \in DOMAIN lists :
    (i # j /\ lists[i].board_id = lists[j].board_id)
    => lists[i].position # lists[j].position

\* C6: a moveTask or moveList call that failed (an error in the second UPDATE,
\* or a caller who is not authorized) answers an error and leaves the position
\* and the parent of every task and list as they were before the call
C6_RollbackRestores ==
  \A p \in Procs :
    (pc[p] = "failed" /\ req[p].op \in {"moveTask", "moveList"})
    => /\ req[p].status = 500
       /\ base.set
       /\ tasks = base.tasks
       /\ lists = base.lists

\* a moveTask call failed after its first UPDATE had shifted a task
C6_Witness ==
  \E p \in Procs :
    /\ pc[p] = "failed"
    /\ req[p].op = "moveTask"
    /\ ShiftTasksMatch(base.tasks, req[p].listId, req[p].position) # {}

\* C7: a moveTask from list S to another list D at targetIndex leaves the
\* remaining tasks of S at 0..|S|-1 in their order and the tasks of D at
\* 0..|D|-1 with the moved task at targetIndex (S and D dense before the call)
C7_CrossListMove ==
  \A p \in Procs :
    LET S == base.tasks[req[p].taskId].list_id
        D == req[p].listId
    IN  (/\ MovedTask(p)
         /\ S # D
         /\ Dense(base.tasks, S) /\ Dense(base.tasks, D)
         /\ req[p].position <= Cardinality(TasksOf(base.tasks, D)))
        => /\ Dense(tasks, S)
           /\ Dense(tasks, D)
           /\ TaskOrder(tasks, S) =
                [k \in 1..(Cardinality(TasksOf(base.tasks, S)) - 1) |->
                   LET o == TaskOrder(base.tasks, S)
                   IN  IF k <= TaskIndex(base.tasks, req[p].taskId) THEN o[k] ELSE o[k + 1]]
           /\ tasks[req[p].taskId] = [list_id |-> D, position |-> req[p].position]

\* C8: a moveTask within the task's own list to targetIndex in 0..n-1 leaves the
\* tasks, sorted by position, in the order the client's splice computes (the
\* list dense before the call)
C8_MoveWithinOrder ==
  \A p \in Procs :
    LET D == req[p].listId
    IN  (/\ MovedTask(p)
         /\ base.tasks[req[p].taskId].list_id = D
         /\ Dense(base.tasks, D)
         /\ req[p].position < Cardinality(TasksOf(base.tasks, D)))
        => /\ C4_TaskPositionsUnique
           /\ TaskOrder(tasks, D) =
                ClientSplice(TaskOrder(base.tasks, D),
                             TaskIndex(base.tasks, req[p].taskId), req[p].position)

\* C9: createTask gives the new task the number of tasks the list held
C9_AppendPosition ==
  \A p \in Procs :
    (pc[p] = "done" /\ req[p].op = "createTask" /\ base.set)
    => tasks[req[p].row].position = Cardinality(TasksOf(base.tasks, req[p].listId))

\* C10: a moveTask of a task to the index it already has in its own list leaves
\* the position of every task of that list unchanged (the list dense before)
C10_NoOpMove ==
  \A p \in Procs :
    LET D == req[p].listId
    IN  (/\ MovedTask(p)
         /\ base.tasks[req[p].taskId].list_id = D
         /\ Dense(base.tasks, D)
         /\ req[p].position = TaskIndex(base.tasks, req[p].taskId))
        => \A id \in TasksOf(base.tasks, D) : tasks[id] = base.tasks[id]

\* the rows ids of table T have pairwise distinct positions
DistinctPositions(T, ids) ==
  \A i, j \in ids : i # j => T[i].position # T[j].position

\* C11: round trip -- in a sibling-set whose positions are pairwise distinct,
\* after a call has moved an entity from its index i to an index j (a moveTask
\* within the task's list, a moveList within the list's board), a second call
\* that moves it back to index i leaves the siblings, sorted by position, in
\* the order they had before the first call
C11_RoundTrip ==
  \A p \in Procs :
    /\ (/\ MovedTask(p)
        /\ base.tasks[req[p].taskId].list_id = req[p].listId
        /\ DistinctPositions(base.tasks, TasksOf(base.tasks, req[p].listId))
        /\ req[p].position < Cardinality(TasksOf(base.tasks, req[p].listId)))
       => TaskOrder(MoveTaskCall(tasks, req[p].taskId, req[p].listId,
                                 TaskIndex(base.tasks, req[p].taskId)),
                    req[p].listId)
            = TaskOrder(base.tasks, req[p].listId)
    /\ (/\ pc[p] = "done" /\ req[p].op = "moveList" /\ base.set
        /\ req[p].listId \in DOMAIN base.lists
        /\ base.lists[req[p].listId].board_id = req[p].boardId
        /\ DistinctPositions(base.lists, ListsOf(base.lists, req[p].boardId))
        /\ req[p].position < Cardinality(ListsOf(base.lists, req[p].boardId)))
       => ListOrder(MoveListCall(lists, req[p].listId,
                                 ListIndex(base.lists, req[p].listId), req[p].boardId),
                    req[p].boardId)
            = ListOrder(base.lists, req[p].boardId)

\* the order of the roles: member < admin < owner
Rank(r) == IF r = "member" THEN 1 ELSE IF r = "admin" THEN 2 ELSE 3

\* user userId has a row on board boardId in M and its role ranks at least requiredRole
RankAllows(M, boardId, userId, requiredRole) ==
  \E m \in MemberRows(M, boardId, userId) : Rank(m.role) >= Rank(requiredRole)

\* user userId has no row on the board in M, or one with role member, admin or owner
KnownCaller(M, boardId, userId) ==
  \A m \in MemberRows(M, boardId, userId) : m.role \in {"member", "admin", "owner"}

\* C12: role monotonicity -- for a caller with no row or with role member, admin
\* or owner and every required role, checkBoardPermission lets the request
\* through iff the caller has a row on the board whose role ranks at least the
\* required one; a request it does not let through is answered 403 and its
\* handler does not run (the board is still there), one it lets through
\* reaches its handler
C12_RoleMonotonic ==
  /\ \A boardId \in BoardIds, userId \in Users, requiredRole \in {"member", "admin", "owner"} :
       KnownCaller(board_members, boardId, userId)
       => (checkBoardPermission(board_members, boardId, userId, requiredRole)
             <=> RankAllows(board_members, boardId, userId, requiredRole))
  /\ \A p \in Procs :
       (/\ req[p].op \in DOMAIN RequiredRole
        /\ base.set
        /\ KnownCaller(base.board_members, req[p].boardId, req[p].userId))
       => IF RankAllows(base.board_members, req[p].boardId, req[p].userId,
                        RequiredRole[req[p].op])
          THEN \/ pc[p] = "handler"
               \/ pc[p] = "done" /\ req[p].status = 200
               \/ pc[p] = "failed" /\ req[p].status = 500
          ELSE /\ pc[p] = "failed"
               /\ req[p].status = 403
               /\ boards = base.boards

\* the check has let a caller with role admin, who is not the board's creator,
\* through to the handler of PATCH, which asks for admin
C12_Witness ==
  \E p \in Procs :
    /\ pc[p] = "handler"
    /\ req[p].op = "updateBoard"
    /\ req[p].role = "admin"
    /\ req[p].userId # boards[req[p].boardId].user_id

\* C13: owner protection -- a removeMember or changeMemberRole call whose target
\* is the user who owns the board (boards.user_id) is answered 403 and leaves
\* the membership rows as they were, whoever calls
C13_OwnerProtected ==
  \A p \in Procs :
    (/\ pc[p] \in {"done", "failed"}
     /\ req[p].op \in {"removeMember", "changeMemberRole"}
     /\ base.set
     /\ req[p].boardId \in DOMAIN base.boards
     /\ req[p].memberId = base.boards[req[p].boardId].user_id)
    => /\ pc[p] = "failed"
       /\ req[p].status = 403
       /\ board_members = base.board_members

\* C14: single immutable owner -- every board has exactly one membership row
\* with role owner, and it is the row of the user who created the board
C14_SingleOwner ==
  \A b \in DOMAIN boards :
    {m \in board_members : m.board_id = b /\ m.role = "owner"}
      = {[board_id |-> b, user_id |-> boards[b].user_id, role |-> "owner"]}

\* user userId has no membership row in M on the board of list listId of L
NotMemberOfList(L, M, listId, userId) ==
  listId \in DOMAIN L /\ MemberRows(M, L[listId].board_id, userId) = {}

\* C15: createTask authorization -- a createTask call on a list of a board on
\* which the caller has no membership row is rejected and inserts no task
C15_CreateTaskAuthorized ==
  \A p \in Procs :
    (/\ pc[p] \in {"done", "failed"}
     /\ req[p].op = "createTask"
     /\ base.set
     /\ NotMemberOfList(base.lists, base.board_members, req[p].listId, req[p].userId))
    => /\ pc[p] = "failed"
       /\ tasks = base.tasks

\* C16: moveTask authorization -- a moveTask call by a caller who has no
\* membership row on the board of the task's list or on the board of the
\* destination list is rejected and changes no task
C16_MoveTaskAuthorized ==
  \A p \in Procs :
    (/\ pc[p] \in {"done", "failed"}
     /\ req[p].op = "moveTask"
     /\ base.set
     /\ req[p].taskId \in DOMAIN base.tasks
     /\ \/ NotMemberOfList(base.lists, base.board_members,
                           base.tasks[req[p].taskId].list_id, req[p].userId)
        \/ NotMemberOfList(base.lists, base.board_members, req[p].listId, req[p].userId))
    => /\ pc[p] = "failed"
       /\ tasks = base.tasks

\* C19: view authorization -- to a caller who has no membership row on the
\* board, getBoard answers 404 and getLists returns none of the board's lists
\* and tasks
C19_ViewAuthorized ==
  \A p \in Procs :
    (/\ pc[p] \in {"done", "failed"}
     /\ req[p].op \in {"getBoard", "getLists"}
     /\ base.set
     /\ MemberRows(base.board_members, req[p].boardId, req[p].userId) = {})
    => /\ req[p].op = "getBoard" => pc[p] = "failed" /\ req[p].status = 404
       /\ req[p].op = "getLists" => req[p].rows = {}

\* C17: moveList authorization -- a moveList call leaves the position of every
\* list of a board on which the caller has no membership row as it was,
\* whatever boardId the request body gives
C17_MoveListAuthorized ==
  \A p \in Procs :
    (/\ pc[p] \in {"done", "failed"}
     /\ req[p].op = "moveList"
     /\ base.set)
    => \A l \in DOMAIN base.lists :
         NotMemberOfList(base.lists, base.board_members, l, req[p].userId)
         => lists[l].position = base.lists[l].position

\* C18: createList authorization -- a createList call by a caller who has a
\* membership row with role member, admin or owner on the board succeeds: the
\* board has one more list, the last of the board, and that list holds no
\* task; a call by a caller with no row fails and adds no list
C18_CreateListAuthorized ==
  \A p \in Procs :
    (/\ pc[p] \in {"done", "failed"}
     /\ req[p].op = "createList"
     /\ base.set)
    => LET rows == MemberRows(base.board_members, req[p].boardId, req[p].userId)
       IN  /\ (rows # {} /\ RowRole(rows) \in {"member", "admin", "owner"})
              => /\ pc[p] = "done"
                 /\ req[p].row \in DOMAIN lists \ DOMAIN base.lists
                 /\ DOMAIN lists = DOMAIN base.lists \cup {req[p].row}
                 /\ lists[req[p].row].board_id = req[p].boardId
                 /\ \A l \in ListsOf(base.lists, req[p].boardId) :
                       lists[l].position < lists[req[p].row].position
                 /\ TasksOf(tasks, req[p].row) = {}
           /\ rows = {} => pc[p] = "failed" /\ lists = base.lists

\* C20: chat-post authorization -- a chat message for a board on which its
\* sender has no membership row, sent over the REST route or over the socket
\* event, is neither inserted into board_chat_messages nor emitted
C20_ChatAuthorized ==
  \A p \in Procs :
    (/\ pc[p] \in {"done", "failed"}
     /\ req[p].op \in {"postMessage", "boardMessage"}
     /\ base.set
     /\ MemberRows(base.board_members, req[p].boardId, req[p].userId) = {})
    => /\ board_chat_messages = base.board_chat_messages
       /\ emitted = base.emitted

\* a removeMember call has been answered
RemoveAnswered(p) ==
  /\ pc[p] \in {"done", "failed"}
  /\ req[p].op = "removeMember"
  /\ base.set

\* C21: removeMember authorization -- a removeMember call deletes a membership
\* row (and then only the target's) only when the caller's role on the board
\* is owner or admin and the target's role is not owner; a caller with role
\* member or with no row gets 403 and no row is deleted
C21_RemoveMemberAuthorized ==
  \A p \in Procs :
    RemoveAnswered(p)
    => LET caller == MemberRows(base.board_members, req[p].boardId, req[p].userId)
           target == MemberRows(base.board_members, req[p].boardId, req[p].memberId)
       IN  /\ board_members # base.board_members
              => /\ \E m \in caller : m.role \in {"owner", "admin"}
                 /\ \A m \in target : m.role # "owner"
                 /\ board_members = base.board_members \ target
           /\ (caller = {} \/ \E m \in caller : m.role = "member")
              => /\ pc[p] = "failed"
                 /\ req[p].status = 403
                 /\ board_members = base.board_members

\* an admin who did not create the board has removed another user's row
C21_Witness ==
  \E p \in Procs :
    /\ RemoveAnswered(p)
    /\ pc[p] = "done"
    /\ board_members # base.board_members
    /\ \E m \in MemberRows(base.board_members, req[p].boardId, req[p].userId) :
         m.role = "admin"
    /\ req[p].memberId # req[p].userId

\* C22: a moveTask call whose taskId names no task fails with a not-found
\* error and leaves the position of every task as it was
C22_MoveMissingTask ==
  \A p \in Procs :
    (/\ pc[p] \in {"done", "failed"}
     /\ req[p].op = "moveTask"
     /\ base.set
     /\ req[p].taskId \notin DOMAIN base.tasks)
    => /\ pc[p] = "failed"
       /\ req[p].status = 404
       /\ tasks = base.tasks

\* C23: target index clamping -- a committed moveTask (moveList) call whose
\* target index is larger than the last index of the destination list (board)
\* leaves the moved task (list) at that last index, n - 1 for n siblings
C23_TargetClamped ==
  \A p \in Procs :
    /\ (/\ MovedTask(p)
        /\ req[p].position >= Cardinality(TasksOf(tasks, req[p].listId)))
       => tasks[req[p].taskId].position = Cardinality(TasksOf(tasks, req[p].listId)) - 1
    /\ (/\ pc[p] = "done" /\ req[p].op = "moveList" /\ base.set
        /\ req[p].listId \in DOMAIN base.lists
        /\ base.lists[req[p].listId].board_id = req[p].boardId
        /\ req[p].position >= Cardinality(ListsOf(lists, req[p].boardId)))
       => lists[req[p].listId].position = Cardinality(ListsOf(lists, req[p].boardId)) - 1

\* C24: membership uniqueness -- board_members holds at most one row per
\* (board, user) pair, and an addMember call for a user who was a member when
\* the running calls began fails and leaves that user's row as it was
C24_MembershipUnique ==
  /\ \A m, n \in board_members :
       (m.board_id = n.board_id /\ m.user_id = n.user_id) => m = n
  /\ \A p \in Procs :
       (/\ pc[p] \in {"done", "failed"}
        /\ req[p].op = "addMember"
        /\ base.set
        /\ MemberRows(base.board_members, req[p].boardId, req[p].memberId) # {})
       => /\ pc[p] = "failed"
          /\ MemberRows(board_members, req[p].boardId, req[p].memberId)
               = MemberRows(base.board_members, req[p].boardId, req[p].memberId)

\* two addMember calls for one (board, user) pair passed the owner check
\* together, one with role admin and one with no role; the first INSERT was
\* let in and the second was refused
C24_Witness ==
  \E p, q \in Procs :
    /\ p # q
    /\ req[p].op = "addMember" /\ req[q].op = "addMember"
    /\ req[p].boardId = req[q].boardId /\ req[p].memberId = req[q].memberId
    /\ req[p].role = "admin" /\ req[q].role = ""
    /\ pc[p] = "done"
    /\ pc[q] = "failed" /\ req[q].status = 500
    /\ base.set
    /\ MemberRows(base.board_members, req[p].boardId, req[p].memberId) = {}

\* process p has answered 200 to a deleteBoard call
DeletedBoard(p) ==
  /\ pc[p] = "done"
  /\ req[p].op = "deleteBoard"
  /\ base.set

\* the board of a deleteBoard call is gone with its lists, their tasks and its
\* membership rows, and what belongs to the other boards is as it was
CascadeDone(p) ==
  LET B == req[p].boardId
  IN  /\ B \notin DOMAIN boards
      /\ ListsOf(lists, B) = {}
      /\ \A t \in DOMAIN tasks : tasks[t].list_id \in DOMAIN lists
      /\ \A m \in board_members : m.board_id # B
      /\ \A l \in DOMAIN base.lists :
           base.lists[l].board_id # B => l \in DOMAIN lists /\ lists[l] = base.lists[l]
      /\ \A t \in DOMAIN base.tasks :
           base.lists[base.tasks[t].list_id].board_id # B
           => t \in DOMAIN tasks /\ tasks[t] = base.tasks[t]
      /\ \A m \in base.board_members : m.board_id # B => m \in board_members

\* C25: cascading board deletion -- a deleteBoard call succeeds only for a
\* caller whose role on the board is owner, and after it no list of the board,
\* no task of its lists and no membership row of it remains, while the lists,
\* tasks and members of every other board are unchanged
C25_CascadingDelete ==
  \A p \in Procs :
    DeletedBoard(p)
    => /\ OwnerRows(base.board_members, req[p].boardId, req[p].userId) # {}
       /\ CascadeDone(p)

\* user userId has a row on the board in M whose role is not member, admin or owner
UnknownCaller(M, boardId, userId) ==
  \E m \in MemberRows(M, boardId, userId) : m.role \notin {"member", "admin", "owner"}

\* C30: unknown roles are denied -- a caller whose stored role on the board is
\* not member, admin or owner is let through checkBoardPermission for no
\* required role, and its update and delete requests are answered 403
C30_UnknownRoleDenied ==
  /\ \A boardId \in BoardIds, userId \in Users, requiredRole \in {"member", "admin", "owner"} :
       UnknownCaller(board_members, boardId, userId)
       => ~checkBoardPermission(board_members, boardId, userId, requiredRole)
  /\ \A p \in Procs :
       (/\ req[p].op \in DOMAIN RequiredRole
        /\ base.set
        /\ UnknownCaller(base.board_members, req[p].boardId, req[p].userId))
       => /\ pc[p] = "failed"
          /\ req[p].status = 403
          /\ boards = base.boards

UsernamesUnique ==
  \A u, v \in DOMAIN users : u # v => users[u].username # users[v].username

\* the part users_email_key carries
EmailsUnique ==
  \A u, v \in DOMAIN users : u # v => users[u].email # users[v].email

\* C26: no two users have the same username and no two users have the same
\* email, whatever register and updateProfile calls run, their SELECT and
\* their INSERT or UPDATE interleaved
C26_AccountsUnique == UsernamesUnique /\ EmailsUnique

\* process p has answered 200 to a call that changed a list or a task
ChangedEntity(p) ==
  /\ pc[p] = "done"
  /\ req[p].op \in {"createList", "createTask", "moveTask", "moveList"}
  /\ base.set

\* C27: when a createList, createTask, moveTask or moveList call has
\* committed and answered, an event has been emitted to the broadcast channel
\* since the call began (the handlers do nothing after their answer)
C27_ChangeNotified ==
  \A p \in Procs : ChangedEntity(p) => Len(emitted) > Len(base.emitted)

\* process p has answered 200 to a createTask (createList) call
CreatedTask(p) == pc[p] = "done" /\ req[p].op = "createTask" /\ base.set
CreatedList(p) == pc[p] = "done" /\ req[p].op = "createList" /\ base.set

\* C28: in a run whose calls are made one at a time, the position createTask
\* gives the new task is greater than the position of every task the list
\* had, and the position createList gives the new list is greater than the
\* position of every list the board had, whatever moves came before
C28_CreateAppendsLast ==
  \A p \in Procs :
    /\ CreatedTask(p) =>
         \A id \in TasksOf(base.tasks, req[p].listId) :
           tasks[req[p].row].position > base.tasks[id].position
    /\ CreatedList(p) =>
         \A id \in ListsOf(base.lists, req[p].boardId) :
           lists[req[p].row].position > base.lists[id].position

\* a task has been appended to a list in which a move had left a gap
AppendedTask(p) ==
  /\ CreatedTask(p)
  /\ TasksOf(base.tasks, req[p].listId) # {}
  /\ ~Dense(base.tasks, req[p].listId)
  /\ tasks[req[p].row].list_id = req[p].listId

\* a list has been appended to a board whose list a move had put elsewhere
AppendedList(p) ==
  /\ CreatedList(p)
  /\ \E id \in ListsOf(base.lists, req[p].boardId) : base.lists[id].position # id
  /\ lists[req[p].row].board_id = req[p].boardId

C28_Witness == \E p \in Procs : AppendedTask(p) \/ AppendedList(p)

\* process p has answered 200 to a moveTask call
CommittedMove(p) == pc[p] = "done" /\ req[p].op = "moveTask" /\ base.set

\* C29: a committed moveTask(taskId, destinationListId, newPosition), in a run
\* whose calls are made one at a time, leaves the moved task in the
\* destination list at newPosition, adds one to the position of every other
\* task the destination list had at newPosition or after, and leaves every
\* other task, those of the source list too, where it was; no task is added
\* or removed
C29_MoveTaskFrame ==
  \A p \in Procs :
    CommittedMove(p) =>
      /\ DOMAIN tasks = DOMAIN base.tasks
      /\ \A id \in DOMAIN base.tasks :
           tasks[id] =
             IF id = req[p].taskId
             THEN [list_id |-> req[p].listId, position |-> req[p].position]
             ELSE IF /\ base.tasks[id].list_id = req[p].listId
                     /\ base.tasks[id].position >= req[p].position
                  THEN [list_id |-> req[p].listId,
                        position |-> base.tasks[id].position + 1]
                  ELSE base.tasks[id]

\* a task has moved to another list, where it pushed a task down
C29_Witness ==
  \E p \in Procs :
    /\ MovedTask(p)
    /\ base.tasks[req[p].taskId].list_id # req[p].listId
    /\ \E id \in DOMAIN base.tasks :
         /\ id # req[p].taskId
         /\ base.tasks[id].list_id = req[p].listId
         /\ tasks[id].position = base.tasks[id].position + 1
====
